---- MODULE Spec2Model ----
(***************************************************************************)
(* A model of scanreq.py: the candidate aggregation of X.versions, the     *)
(* lazy metadata resolution of WheelProject and SourceProject, the scoped  *)
(* workspace TempDir, the source-root descent of unpack_sdist and the      *)
(* command-line loop.                                                      *)
(***************************************************************************)
EXTENDS Naturals, Sequences, FiniteSets

\* ------------------------------------------------------------------ bounds
MaxCands == 3      \* candidates the finder yields for one requirement
MaxVersion == 2    \* distinct versions among them
MaxUrl == 2        \* distinct URLs among them
MaxEntries == 2    \* entries of a wheel archive
MaxReads == 2      \* reads of one project's metadata property
MaxDepth == 2      \* directories of an unpacked layout
MaxIdx == 3        \* slots allocated in one workspace
SymloopMax == 2    \* links the platform follows while resolving one path
PathMax == 5       \* components the platform accepts in one path

VARIABLES
    cands, vi, projects,                                  \* X.versions
    archive, w_metadata, w_outcome, w_opens, w_reads,     \* a WheelProject
    layout, strict, target, plen, nlinks, u_pc, u_result, \* unpack_sdist
    os_name, location, s_metadata, pc, tmp, src,          \* a SourceProject
    builder_src,
    sys_stdout, old_stdout, s_outcome, s_runs, s_reads, diag,
    mi, m_pc, printed, hard                               \* __main__

verVars == <<cands, vi, projects>>
wheelVars == <<archive, w_metadata, w_outcome, w_opens, w_reads>>
sdVars == <<layout, strict, target, plen, nlinks, u_pc, u_result>>
srcVars == <<os_name, location, s_metadata, pc, tmp, src, builder_src,
             sys_stdout, old_stdout, s_outcome, s_runs, s_reads, diag>>
mainVars == <<mi, m_pc, printed, hard>>
vars == <<verVars, wheelVars, sdVars, srcVars, mainVars>>

\* ------------------------------------------------------------- Python values
\* None is the empty option, a value v is <<v>>.
None == << >>
Some(v) == <<v>>

\* The truth value `if self._metadata:` tests: None is false, and so is a
\* Message without headers (email.message.Message defines __len__).
Truthy(m) == m # None /\ Len(m[1]) > 0

\* ------------------------------------------------------------ Candidate
\* A link of the index listing: the filename's extension, the version its
\* name parses to, and its URL.
Links == [ext : {"whl", "tar.gz"}, version : 1..MaxVersion, url : 1..MaxUrl]

Candidate(link) ==
    [is_wheel |-> link.ext = "whl", version |-> link.version, url |-> link.url]

WheelProject(loc) == [cls |-> "WheelProject", location |-> loc, metadata |-> None]
SourceProject(loc) == [cls |-> "SourceProject", location |-> loc, metadata |-> None]

\* ------------------------------------------------------------ X.versions
\* projects is the dict in insertion order: a sequence of (version, project).
Keys(projs) == {projs[k].version : k \in 1..Len(projs)}

versions_body_lastwins(projs, candidate) ==
    LET p == IF candidate.is_wheel THEN WheelProject(candidate.url)
             ELSE SourceProject(candidate.url)
    IN IF candidate.version \in Keys(projs)
       THEN [k \in 1..Len(projs) |->
                IF projs[k].version = candidate.version
                THEN [version |-> candidate.version, p |-> p] ELSE projs[k]]
       ELSE Append(projs, [version |-> candidate.version, p |-> p])

\* One iteration of the for loop.
versions_body(projs, candidate) ==
    IF candidate.version \in Keys(projs)
    THEN projs
    ELSE LET p == IF candidate.is_wheel THEN WheelProject(candidate.url)
                  ELSE SourceProject(candidate.url)
         IN Append(projs, [version |-> candidate.version, p |-> p])

VersionsStep ==
    /\ vi <= Len(cands)
    /\ projects' = versions_body(projects, cands[vi])
    /\ vi' = vi + 1
    /\ UNCHANGED <<cands, wheelVars, sdVars, srcVars, mainVars>>

SeqsUpTo(S, n) == UNION {[1..k -> S] : k \in 0..n}

CandidateSeqs == SeqsUpTo({Candidate(l) : l \in Links}, MaxCands)

VerInit == cands \in CandidateSeqs /\ vi = 1 /\ projects = << >>
VerIdle == cands = << >> /\ vi = 1 /\ projects = << >>

\* ------------------------------------------------------------ WheelProject
\* An entry name is a sequence of tokens, so that str.endswith is a suffix test.
DistInfoMetadata == <<".dist-info", "/", "METADATA">>

EntryNames ==
    { <<"pkg", ".dist-info", "/", "METADATA">>,
      <<"alt", ".dist-info", "/", "METADATA">>,
      <<"pkg", "/", "METADATA">>,
      <<"pkg", ".dist-info", "/", "RECORD">> }

endswith(s, suffix) ==
    /\ Len(s) >= Len(suffix)
    /\ SubSeq(s, Len(s) - Len(suffix) + 1, Len(s)) = suffix

\* The bytes of an entry: lines, each a header <<key, value>> or the blank line.
Blank == << >>
Contents ==
    { << <<"Version", "1">> >>,
      << <<"Name", "b">>, <<"Version", "2">>, Blank, <<"Version", "9">> >>,
      << Blank, <<"Version", "1">> >> }

Min(S) == CHOOSE x \in S : \A y \in S : x <= y
Max(S) == CHOOSE x \in S : \A y \in S : y <= x

\* BytesParser().parse(fp, headersonly=True): the headers before the first
\* blank line.
parse(lines) ==
    LET blanks == {k \in 1..Len(lines) : lines[k] = Blank}
    IN IF blanks = {} THEN lines ELSE SubSeq(lines, 1, Min(blanks) - 1)

\* Message.__getitem__: the first value of the header, None when absent.
GetItem(msg, key) ==
    LET hits == {k \in 1..Len(msg) : msg[k][1] = key}
    IN IF hits = {} THEN "None" ELSE msg[Min(hits)][2]

Archives == SeqsUpTo([name : EntryNames, data : Contents], MaxEntries)

namelist(z) == [k \in 1..Len(z) |-> z[k].name]

\* ZipFile.open(name) looks the name up in NameToInfo, which holds the last
\* entry read under each name.
zip_open(z, n) ==
    z[Max({k \in 1..Len(z) : z[k].name = n})].data

\* WheelProject._get_metadata on a project whose _metadata is meta; zip is
\* what get_zip returns (None: the fetch raised).
wheel_get_metadata(meta, zip) ==
    IF Truthy(meta) THEN [metadata |-> meta, outcome |-> "cached", opens |-> 0]
    ELSE IF zip = None THEN [metadata |-> meta, outcome |-> "URLError", opens |-> 1]
    ELSE LET z == zip[1]
             hits == {k \in 1..Len(z) : endswith(namelist(z)[k], DistInfoMetadata)}
         IN IF hits = {}
            THEN [metadata |-> meta, outcome |-> "RuntimeError", opens |-> 1]
            ELSE [metadata |-> Some(parse(zip_open(z, namelist(z)[Min(hits)]))),
                  outcome |-> "ok", opens |-> 1]

\* A read of the metadata property of the wheel project under test.
WheelRead ==
    /\ w_reads < MaxReads
    /\ \E ok \in BOOLEAN :
         LET r == wheel_get_metadata(w_metadata, IF ok THEN Some(archive) ELSE None)
         IN /\ w_metadata' = r.metadata
            /\ w_outcome' = r.outcome
            /\ w_opens' = w_opens + r.opens
    /\ w_reads' = w_reads + 1
    /\ UNCHANGED <<archive, verVars, sdVars, srcVars, mainVars>>

WheelInit ==
    /\ archive \in Archives
    /\ w_metadata = None /\ w_outcome = "none" /\ w_opens = 0 /\ w_reads = 0
WheelIdle ==
    /\ archive = << >>
    /\ w_metadata = None /\ w_outcome = "none" /\ w_opens = 0 /\ w_reads = 0

\* ------------------------------------------------------------ unpack_sdist
\* An unpacked layout: directory 1 is the unpack target, directory i + 1 the
\* subdirectory of directory i. A directory holds at most one descriptor
\* entry (desc; "dangling" is a setup.py link to nothing), its first other
\* entry (content: none, a file, a subdirectory, or a link leading back to
\* the unpack target or to the directory itself) and `more` further entries.
Dirs == [desc : {"none", "setup.py", "pyproject.toml", "dangling"},
         content : {"empty", "file", "dir", "linkroot", "linkself"},
         more : 0..1]

Layouts == [1..MaxDepth -> Dirs]

DirAt(lay, i) ==
    IF i \in 1..Len(lay) THEN lay[i]
    ELSE [desc |-> "none", content |-> "empty", more |-> 0]

\* setup_py.exists() or pyproject_toml.exists()
HasDescriptor(d) == d.desc \in {"setup.py", "pyproject.toml"}

\* len(list(target.iterdir()))
ContentLen(d) ==
    (IF d.desc = "none" THEN 0 ELSE 1) + (IF d.content = "empty" THEN 0 ELSE 1) + d.more

IsLink(d) == d.content \in {"linkroot", "linkself"}

\* (target / content[0]).is_dir(), links followed
FirstIsDir(d) == d.desc = "none" /\ d.content \in {"dir", "linkroot", "linkself"}

\* target / content[0]: iterdir() yields the entry's absolute path (tmp.path
\* is absolute), so the join is that entry.
Child(i, d) ==
    CASE d.content = "linkroot" -> 1
      [] d.content = "linkself" -> i
      [] OTHER -> i + 1

NoResult == [kind |-> "none", root |-> 0]

loop_body_lt(lay, st, raises) ==
    LET d == DirAt(lay, st.target)
        links == st.nlinks + (IF IsLink(d) THEN 1 ELSE 0)
        stop(k, r) == [st EXCEPT !.pc = "done", !.result = [kind |-> k, root |-> r]]
    IN IF st.plen + 1 > PathMax /\ raises THEN stop("OSError", 0)
       ELSE IF st.plen + 1 <= PathMax /\ HasDescriptor(d) THEN stop("root", st.target)
       ELSE IF ContentLen(d) < 1 THEN stop("NotSdist", 0)
       ELSE IF st.plen + 1 > PathMax \/ links > SymloopMax \/ ~FirstIsDir(d)
            THEN stop("NotSdist", 0)
       ELSE [st EXCEPT !.target = Child(st.target, d), !.plen = st.plen + 1,
                       !.nlinks = links]

\* One iteration of the while loop at directory st.target, reached through a
\* path of st.plen components and st.nlinks links below the unpack target.
\* The platform resolves a path of at most PathMax components and SymloopMax
\* links: beyond SymloopMax is_dir() is false (ELOOP); beyond PathMax
\* exists() raises OSError (ENAMETOOLONG) where pathlib lets it through
\* (raises), and is false like is_dir() where it does not.
loop_body(lay, st, raises) ==
    LET d == DirAt(lay, st.target)
        links == st.nlinks + (IF IsLink(d) THEN 1 ELSE 0)
        stop(k, r) == [st EXCEPT !.pc = "done", !.result = [kind |-> k, root |-> r]]
    IN IF st.plen + 1 > PathMax /\ raises THEN stop("OSError", 0)
       ELSE IF st.plen + 1 <= PathMax /\ HasDescriptor(d) THEN stop("root", st.target)
       ELSE IF ContentLen(d) # 1 THEN stop("NotSdist", 0)
       ELSE IF st.plen + 1 > PathMax \/ links > SymloopMax \/ ~FirstIsDir(d)
            THEN stop("NotSdist", 0)
       ELSE [st EXCEPT !.target = Child(st.target, d), !.plen = st.plen + 1,
                       !.nlinks = links]

LoopStart == [target |-> 1, plen |-> 0, nlinks |-> 0, pc |-> "loop", result |-> NoResult]

RECURSIVE run_loop(_, _, _)
run_loop(lay, st, raises) ==
    IF st.pc = "done" THEN st.result ELSE run_loop(lay, loop_body(lay, st, raises), raises)

\* unpack_sdist(sdist, target) once shutil.unpack_archive has produced lay.
unpack_sdist(lay, raises) == run_loop(lay, LoopStart, raises)

\* What unpack_sdist can return or raise, over the layouts an archive can
\* unpack to.
UnpackOutcomes == {unpack_sdist(lay, raises) : lay \in Layouts, raises \in BOOLEAN}

Descend ==
    /\ u_pc = "loop"
    /\ LET st == loop_body(layout,
                           [target |-> target, plen |-> plen, nlinks |-> nlinks,
                            pc |-> u_pc, result |-> u_result], strict)
       IN /\ target' = st.target /\ plen' = st.plen /\ nlinks' = st.nlinks
          /\ u_pc' = st.pc /\ u_result' = st.result
    /\ UNCHANGED <<layout, strict, verVars, wheelVars, srcVars, mainVars>>

\* strict: pathlib lets ENAMETOOLONG through exists() (CPython up to 3.12).
SdInit ==
    /\ layout \in Layouts /\ strict \in BOOLEAN
    /\ target = 1 /\ plen = 0 /\ nlinks = 0 /\ u_pc = "loop" /\ u_result = NoResult
SdIdle ==
    /\ layout = << >> /\ strict = FALSE
    /\ target = 1 /\ plen = 0 /\ nlinks = 0 /\ u_pc = "idle" /\ u_result = NoResult

\* ------------------------------------------------------------ TempDir
\* A name inside the workspace: f"file-{idx}" is <<"file", idx>>, and a URL's
\* trailing path segment is <<text, 0>>, or <<"dir", n>> when it reads "dir-n".
SlotName(kind, idx) == <<kind, idx>>
Pkg == <<"pkg", 0>>
Empty == <<"", 0>>
DotDot == <<"..", 0>>
\* The segment "..\pkg": no "/" in it, and a "\" that only Windows paths split at.
BackDotDot == <<"..\\pkg", 0>>

\* A path is the sequence of names below tmp.path; tmp.path itself is << >>.
Root == << >>

\* The parts a path flavour (os.name) parses one operand of "/" into.
Parts(flavour, name) ==
    IF name = Empty THEN << >>
    ELSE IF flavour = "nt" /\ name = BackDotDot THEN <<DotDot, Pkg>>
    ELSE <<name>>

\* PurePath.__truediv__
Join(flavour, path, name) == path \o Parts(flavour, name)

\* The path lies strictly below tmp.path.
Nested(path) == Len(path) >= 1 /\ \A k \in 1..Len(path) : path[k] # DotDot

\* The workspace: the flavour of tmp.path, whether its directory exists, the
\* slot index, the directories and files in it, the files written from it
\* to a place outside it, the paths file() and dir() returned, and the paths
\* the download wrote.
NoTempDir == [flavour |-> "posix", exists |-> FALSE, idx |-> 0, dirs |-> {},
              files |-> {}, outside |-> {}, handed |-> << >>, written |-> {}]

\* TempDir.__init__ / __enter__
TempDirNew(flavour) == [NoTempDir EXCEPT !.exists = TRUE, !.flavour = flavour]

\* TempDir.file
file(w) ==
    LET path == Join(w.flavour, Root, SlotName("file", w.idx + 1))
    IN [w EXCEPT !.idx = w.idx + 1, !.handed = Append(w.handed, path)]

\* Path.mkdir raises FileExistsError on a taken name.
MkdirFails(w) ==
    Join(w.flavour, Root, SlotName("dir", w.idx + 1)) \in w.dirs \cup w.files

\* TempDir.dir; when mkdir raises the index has moved and nothing is returned.
dir(w) ==
    LET path == Join(w.flavour, Root, SlotName("dir", w.idx + 1))
    IN IF MkdirFails(w) THEN [w EXCEPT !.idx = w.idx + 1]
       ELSE [w EXCEPT !.idx = w.idx + 1, !.dirs = w.dirs \cup {path},
                      !.handed = Append(w.handed, path)]

\* The directory dir(w) returned.
LastDir(w) == Join(w.flavour, Root, SlotName("dir", w.idx))

\* Path.write_bytes raises IsADirectoryError on a directory: the workspace
\* root, its parent, or a directory made in it.
WriteFails(w, path) ==
    path = Root \/ path[Len(path)] = DotDot \/ path \in w.dirs

\* A file written below the root is in the workspace; one written through
\* ".." is not.
write_bytes(w, path) ==
    [w EXCEPT !.files = IF Nested(path) THEN w.files \cup {path} ELSE w.files,
              !.outside = IF Nested(path) THEN w.outside ELSE w.outside \cup {path},
              !.written = w.written \cup {path}]

\* TemporaryDirectory.__exit__: cleanup() removes the tree of tmp.path.
TempDirExit(w) == [w EXCEPT !.exists = FALSE, !.dirs = {}, !.files = {}]

\* ------------------------------------------------------------ SourceProject
Segments == { Pkg, Empty, DotDot, BackDotDot, SlotName("dir", 1) }

\* urlparse(location).scheme in ("http", "https"): kind "url", whose path
\* ends in seg; else a local path, a directory or a file.
Locations ==
    [kind : {"url"}, seg : Segments] \cup [kind : {"dir", "file"}, seg : {Pkg}]

\* The location of a candidate of the index: its filename is the URL's
\* trailing path segment.
UrlLocation(u) == [kind |-> "url", seg |-> <<"pkg", u>>]

NoPath == [where |-> "None", path |-> << >>, node |-> 0]
Unset == [where |-> "unset", path |-> << >>, node |-> 0]
LocalPath(loc) == [where |-> "local", path |-> <<loc.seg>>, node |-> 0]
TmpPath(path, n) == [where |-> "tmp", path |-> path, node |-> n]

\* The wheels a build can leave in out_dir.
BuiltArchives ==
    { << [name |-> <<"pkg", ".dist-info", "/", "METADATA">>, data |-> c] >> : c \in Contents }
    \cup { << [name |-> <<"pkg", ".dist-info", "/", "RECORD">>,
               data |-> << <<"Version", "1">> >>] >> }

\* Leaving the with block: the workspace is released, whatever the cause o.
SrcExit(w, o) ==
    /\ tmp' = TempDirExit(w)
    /\ pc' = "idle"
    /\ s_outcome' = o
    /\ src' = NoPath

\* SourceProject._get_metadata up to the entry of the with block.
SrcEnter ==
    IF Truthy(s_metadata)
    THEN /\ s_outcome' = "cached"
         /\ UNCHANGED <<pc, tmp, src, builder_src, s_runs>>
    ELSE /\ tmp' = TempDirNew(os_name)
         /\ pc' = "get_src"
         /\ s_runs' = s_runs + 1
         /\ builder_src' = Unset
         /\ UNCHANGED <<src, s_outcome>>

\* A read of the metadata property of the source project under test.
SrcRead ==
    /\ pc = "idle"
    /\ s_reads < MaxReads
    /\ s_reads' = s_reads + 1
    /\ SrcEnter
    /\ UNCHANGED <<verVars, wheelVars, sdVars, mainVars>>
    /\ UNCHANGED <<os_name, location, s_metadata, sys_stdout, old_stdout, diag>>

\* SourceProject.get_src up to the call of unpack_sdist.
SrcGetSrc ==
    /\ pc = "get_src"
    /\ \/ /\ location.kind = "url"
          /\ \E fetched \in BOOLEAN :
               LET path == Join(tmp.flavour, Root, location.seg)
               IN IF ~fetched THEN SrcExit(tmp, "URLError")
                  ELSE IF WriteFails(tmp, path) THEN SrcExit(tmp, "IsADirectoryError")
                  ELSE /\ tmp' = write_bytes(tmp, path)
                       /\ src' = TmpPath(path, 0)
                       /\ pc' = "unpack"
                       /\ UNCHANGED s_outcome
       \/ /\ location.kind = "dir"
          /\ src' = NoPath
          /\ pc' = "check"
          /\ UNCHANGED <<tmp, s_outcome>>
       \/ /\ location.kind = "file"
          /\ src' = LocalPath(location)
          /\ pc' = "unpack"
          /\ UNCHANGED <<tmp, s_outcome>>
    /\ UNCHANGED <<verVars, wheelVars, sdVars, mainVars>>
    /\ UNCHANGED <<os_name, location, s_metadata, builder_src, sys_stdout, old_stdout,
                   s_runs, s_reads, diag>>

\* src = unpack_sdist(src, tmp.dir()): the archive unpacks to some layout, or
\* shutil.unpack_archive raises ReadError.
SrcUnpack ==
    /\ pc = "unpack"
    /\ IF MkdirFails(tmp) THEN SrcExit(dir(tmp), "FileExistsError")
       ELSE \/ SrcExit(dir(tmp), "ReadError")
            \/ \E r \in UnpackOutcomes :
                 IF r.kind = "root"
                 THEN /\ tmp' = dir(tmp)
                      /\ src' = TmpPath(LastDir(dir(tmp)), r.root)
                      /\ pc' = "check"
                      /\ UNCHANGED s_outcome
                 ELSE SrcExit(dir(tmp), r.kind)
    /\ UNCHANGED <<verVars, wheelVars, sdVars, mainVars>>
    /\ UNCHANGED <<os_name, location, s_metadata, builder_src, sys_stdout, old_stdout,
                   s_runs, s_reads, diag>>

\* builder = build.ProjectBuilder(src); builder.check_dependencies("wheel").
\* ProjectBuilder takes os.path.abspath(src), a TypeError on None.
SrcCheck ==
    /\ pc = "check"
    /\ builder_src' = src
    /\ IF src = NoPath
       THEN SrcExit(tmp, "TypeError") /\ UNCHANGED diag
       ELSE \E deps \in {"satisfied", "unsatisfied", "raise"} :
              CASE deps = "raise" -> SrcExit(tmp, "BuildError") /\ UNCHANGED diag
                [] deps = "unsatisfied" -> SrcExit(tmp, "soft") /\ diag' = diag + 1
                [] OTHER -> /\ pc' = "build"
                            /\ UNCHANGED <<tmp, src, s_outcome, diag>>
    /\ UNCHANGED <<verVars, wheelVars, sdVars, mainVars>>
    /\ UNCHANGED <<os_name, location, s_metadata, sys_stdout, old_stdout, s_runs, s_reads>>

\* out_dir = tmp.dir(), the switch of sys.stdout, builder.build("wheel", out_dir)
\* and the switch back, which a raising build never reaches.
SrcBuild ==
    /\ pc = "build"
    /\ IF MkdirFails(tmp)
       THEN SrcExit(dir(tmp), "FileExistsError") /\ UNCHANGED <<sys_stdout, old_stdout>>
       ELSE /\ old_stdout' = sys_stdout
            /\ \E built \in BOOLEAN :
                 IF built
                 THEN /\ sys_stdout' = old_stdout'
                      /\ tmp' = [dir(tmp) EXCEPT !.files = @ \cup
                                    {Append(LastDir(dir(tmp)), <<"whl", 0>>)}]
                      /\ pc' = "adopt"
                      /\ UNCHANGED <<src, s_outcome>>
                 ELSE /\ sys_stdout' = "BytesIO"
                      /\ SrcExit(dir(tmp), "BuildError")
    /\ UNCHANGED <<verVars, wheelVars, sdVars, mainVars>>
    /\ UNCHANGED <<os_name, location, s_metadata, builder_src, s_runs, s_reads, diag>>

\* self._metadata = WheelProject(wheel).metadata, then the end of the block.
SrcAdopt ==
    /\ pc = "adopt"
    /\ \E z \in BuiltArchives :
         LET r == wheel_get_metadata(None, Some(z))
         IN IF r.outcome = "ok"
            THEN s_metadata' = r.metadata /\ SrcExit(tmp, "ok")
            ELSE UNCHANGED s_metadata /\ SrcExit(tmp, r.outcome)
    /\ UNCHANGED <<verVars, wheelVars, sdVars, mainVars>>
    /\ UNCHANGED <<os_name, location, builder_src, sys_stdout, old_stdout, s_runs, s_reads, diag>>

SrcInit ==
    /\ os_name \in {"posix", "nt"}
    /\ location \in Locations
    /\ s_metadata = None /\ pc = "idle" /\ tmp = NoTempDir /\ src = NoPath
    /\ builder_src = Unset /\ sys_stdout = "stdout" /\ old_stdout = "stdout"
    /\ s_outcome = "none" /\ s_runs = 0 /\ s_reads = 0 /\ diag = 0
SrcIdle ==
    /\ os_name = "posix"
    /\ location = UrlLocation(0)
    /\ s_metadata = None /\ pc = "idle" /\ tmp = NoTempDir /\ src = NoPath
    /\ builder_src = Unset /\ sys_stdout = "stdout" /\ old_stdout = "stdout"
    /\ s_outcome = "none" /\ s_runs = 0 /\ s_reads = 0 /\ diag = 0

\* ------------------------------------------------------------ a workspace in use
TdSegments == Segments \cup {SlotName("file", 1)}

TdFile ==
    /\ tmp.exists /\ tmp.idx < MaxIdx
    /\ tmp' = file(tmp)
    /\ UNCHANGED <<verVars, wheelVars, sdVars, mainVars, os_name, location, s_metadata,
                   pc, src, builder_src, sys_stdout, old_stdout, s_outcome, s_runs,
                   s_reads, diag>>

TdDir ==
    /\ tmp.exists /\ tmp.idx < MaxIdx
    /\ tmp' = dir(tmp)
    /\ UNCHANGED <<verVars, wheelVars, sdVars, mainVars, os_name, location, s_metadata,
                   pc, src, builder_src, sys_stdout, old_stdout, s_outcome, s_runs,
                   s_reads, diag>>

\* The write of get_src: src = tmp.path / <segment>; src.write_bytes(...).
TdDownload ==
    /\ tmp.exists
    /\ \E seg \in TdSegments :
         /\ ~WriteFails(tmp, Join(tmp.flavour, Root, seg))
         /\ tmp' = write_bytes(tmp, Join(tmp.flavour, Root, seg))
    /\ UNCHANGED <<verVars, wheelVars, sdVars, mainVars, os_name, location, s_metadata,
                   pc, src, builder_src, sys_stdout, old_stdout, s_outcome, s_runs,
                   s_reads, diag>>

\* ------------------------------------------------------------ __main__
MainIdle == mi = 1 /\ m_pc = "idle" /\ printed = << >> /\ hard = FALSE

\* results = x.versions(w) has returned.
MainVersions ==
    /\ m_pc = "versions" /\ vi > Len(cands)
    /\ m_pc' = "loop"
    /\ UNCHANGED <<verVars, wheelVars, sdVars, srcVars, mi, printed, hard>>

\* p.version of a WheelProject: the whole of its _get_metadata.
MainReadWheel ==
    /\ m_pc = "loop" /\ mi <= Len(projects)
    /\ projects[mi].p.cls = "WheelProject"
    /\ \E zip \in {None} \cup {Some(z) : z \in BuiltArchives} :
         LET r == wheel_get_metadata(projects[mi].p.metadata, zip)
         IN /\ w_metadata' = r.metadata
            /\ w_outcome' = r.outcome
            /\ w_opens' = w_opens + r.opens
    /\ m_pc' = "reading"
    /\ UNCHANGED <<verVars, archive, w_reads, sdVars, srcVars, mi, printed, hard>>

\* p.version of a SourceProject: its _get_metadata starts.
MainReadSource ==
    /\ m_pc = "loop" /\ mi <= Len(projects)
    /\ projects[mi].p.cls = "SourceProject"
    /\ pc = "idle"
    /\ location' = UrlLocation(projects[mi].p.location)
    /\ s_metadata' = projects[mi].p.metadata
    /\ tmp' = TempDirNew(os_name)
    /\ pc' = "get_src"
    /\ s_runs' = s_runs + 1
    /\ builder_src' = Unset
    /\ m_pc' = "reading"
    /\ UNCHANGED <<verVars, wheelVars, sdVars, os_name, src, sys_stdout, old_stdout,
                   s_outcome, s_reads, diag, mi, printed, hard>>

\* print(ver, p.version) once the metadata property has returned or raised:
\* an exception leaves the loop, and so does None["Version"].
MainPrint ==
    /\ m_pc = "reading" /\ pc = "idle"
    /\ LET wheel == projects[mi].p.cls = "WheelProject"
           o == IF wheel THEN w_outcome ELSE s_outcome
           m == IF wheel THEN w_metadata ELSE s_metadata
       IN IF o \notin {"ok", "soft"}
          THEN m_pc' = "crashed" /\ hard' = TRUE /\ UNCHANGED <<mi, printed>>
          ELSE IF m = None
          THEN m_pc' = "crashed" /\ UNCHANGED <<mi, printed, hard>>
          ELSE /\ printed' = Append(printed, <<projects[mi].version, GetItem(m[1], "Version")>>)
               /\ mi' = mi + 1
               /\ m_pc' = "loop"
               /\ UNCHANGED hard
    /\ UNCHANGED <<verVars, wheelVars, sdVars, srcVars>>

\* raise SystemExit after the loop
MainExit ==
    /\ m_pc = "loop" /\ mi > Len(projects)
    /\ m_pc' = "done"
    /\ UNCHANGED <<verVars, wheelVars, sdVars, srcVars, mi, printed, hard>>

\* ------------------------------------------------------------ specifications
\* The command-line run.
Init ==
    /\ VerInit /\ WheelIdle /\ SdIdle /\ SrcIdle
    /\ mi = 1 /\ m_pc = "versions" /\ printed = << >> /\ hard = FALSE

Next ==
    \/ VersionsStep
    \/ MainVersions
    \/ MainReadWheel
    \/ MainReadSource
    \/ SrcGetSrc
    \/ SrcUnpack
    \/ SrcCheck
    \/ SrcBuild
    \/ SrcAdopt
    \/ MainPrint
    \/ MainExit

Spec == Init /\ [][Next]_vars

\* X.versions alone.
InitVersions == VerInit /\ WheelIdle /\ SdIdle /\ SrcIdle /\ MainIdle
NextVersions == VersionsStep
SpecVersions == InitVersions /\ [][NextVersions]_vars

\* One WheelProject, read repeatedly.
InitWheel == VerIdle /\ WheelInit /\ SdIdle /\ SrcIdle /\ MainIdle
NextWheel == WheelRead
SpecWheel == InitWheel /\ [][NextWheel]_vars

\* unpack_sdist on one unpacked layout.
InitSdist == VerIdle /\ WheelIdle /\ SdInit /\ SrcIdle /\ MainIdle
NextSdist == Descend
SpecSdist == InitSdist /\ [][NextSdist]_vars

\* One SourceProject, read repeatedly.
InitSource == VerIdle /\ WheelIdle /\ SdIdle /\ SrcInit /\ MainIdle
NextSource ==
    \/ SrcRead
    \/ SrcGetSrc
    \/ SrcUnpack
    \/ SrcCheck
    \/ SrcBuild
    \/ SrcAdopt
SpecSource == InitSource /\ [][NextSource]_vars

\* One workspace under any sequence of its operations.
InitTempDir ==
    /\ VerIdle /\ WheelIdle /\ SdIdle /\ MainIdle
    /\ os_name \in {"posix", "nt"}
    /\ location = UrlLocation(0)
    /\ s_metadata = None /\ pc = "idle" /\ tmp = TempDirNew(os_name) /\ src = NoPath
    /\ builder_src = Unset /\ sys_stdout = "stdout" /\ old_stdout = "stdout"
    /\ s_outcome = "none" /\ s_runs = 0 /\ s_reads = 0 /\ diag = 0
NextTempDir == TdFile \/ TdDir \/ TdDownload
SpecTempDir == InitTempDir /\ [][NextTempDir]_vars

\* ------------------------------------------------------------ properties

\* C1: at every point of the loop of X.versions, the mapping holds exactly
\* one entry per distinct version among the candidates consumed so far, and
\* the entry of a version is the fresh project built from the first consumed
\* candidate with that version: a WheelProject when it is a wheel, a
\* SourceProject otherwise, at that candidate's URL.
C1_FirstSeenWins ==
    LET seen == 1..(vi - 1)
        first(v) == Min({k \in seen : cands[k].version = v})
    IN /\ Keys(projects) = {cands[k].version : k \in seen}
       /\ Len(projects) = Cardinality(Keys(projects))
       /\ \A k \in 1..Len(projects) :
            LET c == cands[first(projects[k].version)]
            IN projects[k].p =
                 [cls |-> IF c.is_wheel THEN "WheelProject" ELSE "SourceProject",
                  location |-> c.url, metadata |-> None]

\* The loop has consumed a wheel, then an sdist of the same version at
\* another URL, then a wheel of another version.
C1_Witness ==
    /\ Len(cands) = 3 /\ vi = 4
    /\ cands[1].is_wheel /\ ~cands[2].is_wheel /\ cands[3].is_wheel
    /\ cands[1].version = cands[2].version /\ cands[1].url # cands[2].url
    /\ cands[3].version # cands[1].version
    /\ Len(projects) = 2

\* C2: the body of a SourceProject's _get_metadata (workspace, fetch, unpack,
\* dependency check, build, parse) runs at most once per instance: once a
\* read has returned, with a record or with the soft failure, no later read
\* runs it again.
C2_ResolvedAtMostOnce ==
    [][(pc = "idle" /\ s_outcome \in {"ok", "soft", "cached"}) => s_runs' = s_runs]_vars

\* C3: in the command-line loop a missing build prerequisite raises nothing:
\* the loop ends only by its SystemExit or by a hard error, and when it has
\* ended without a hard error every version has either its line printed or
\* its diagnostic.
C3_SoftFailureContinues ==
    /\ m_pc = "crashed" => hard
    /\ m_pc = "done" => Len(printed) + diag = Len(projects)

\* C4: a read that opened the archive ends in "Wheel has no metadata", the
\* project unresolved, when no entry name ends with .dist-info/METADATA, and
\* otherwise leaves as the metadata the record parsed from the first such
\* entry in archive order.
C4_FirstMetadataEntry ==
    LET hits == {k \in 1..Len(archive) : endswith(archive[k].name, DistInfoMetadata)}
    IN /\ w_outcome = "RuntimeError" => hits = {} /\ w_metadata = None
       /\ w_outcome \in {"ok", "cached"} =>
            hits # {} /\ w_metadata = Some(parse(archive[Min(hits)].data))
       /\ (w_outcome \in {"ok", "cached", "RuntimeError"} /\ hits = {}) =>
            w_outcome = "RuntimeError"

\* C5: on a layout without links, unpack_sdist ends with the first directory
\* of the chain of sole-subdirectory descents that holds setup.py or
\* pyproject.toml, and with "Not a sdist" exactly when the chain reaches a
\* directory without descriptor whose content is not one single directory.
C5_RootOfChain ==
    LET D(i) == DirAt(layout, i)
        desc(i) == D(i).desc = "setup.py" \/ D(i).desc = "pyproject.toml"
        sole(i) == D(i).desc = "none" /\ D(i).content = "dir" /\ D(i).more = 0
        reached(i) == \A j \in 1..(i - 1) : ~desc(j) /\ sole(j)
        chain == {i \in 1..(MaxDepth + 1) : reached(i)}
    IN (u_pc = "done" /\ \A i \in 1..MaxDepth : ~IsLink(D(i))) =>
         /\ u_result.kind \in {"root", "NotSdist"}
         /\ u_result.kind = "root" =>
              u_result.root \in chain /\ desc(u_result.root)
         /\ u_result.kind = "NotSdist" <=>
              \E i \in chain : ~desc(i) /\ ~sole(i)

\* The descent went one level down and returned the nested directory for its
\* pyproject.toml.
C5_Witness ==
    /\ u_pc = "done" /\ u_result = [kind |-> "root", root |-> 2]
    /\ layout[1].content = "dir" /\ layout[2].desc = "pyproject.toml"

\* C6: whenever no resolution is in progress the workspace directory and all
\* that the resolution created (downloaded archive, unpacked sources, wheel)
\* are gone, whatever the resolution ended in, and a successful resolution
\* has left its metadata record.
C6_WorkspaceReleased ==
    pc = "idle" =>
      /\ ~tmp.exists /\ tmp.dirs = {} /\ tmp.files = {} /\ tmp.outside = {}
      /\ s_outcome = "ok" => s_metadata # None

\* C7: every path file() or dir() returned and every path the download wrote
\* lies strictly below the workspace root, no two returned paths are equal,
\* and the slot index never decreases.
C7_Allocation ==
    /\ [](/\ \A p \in {tmp.handed[k] : k \in 1..Len(tmp.handed)} \cup tmp.written :
               Len(p) >= 1 /\ \A k \in 1..Len(p) : p[k] \notin {Empty, DotDot}
          /\ \A j, k \in 1..Len(tmp.handed) : tmp.handed[j] = tmp.handed[k] => j = k)
    /\ [][tmp'.idx >= tmp.idx]_vars

\* C8: whenever no resolution is in progress, sys.stdout is the stream that
\* was in place before it.
C8_StdoutRestored == pc = "idle" => sys_stdout = "stdout"

\* C9: for a location that is a local directory, the builder of a finished
\* resolution was made on exactly that directory.
C9_BuildsOnDirectory ==
    (location.kind = "dir" /\ pc = "idle" /\ s_runs > 0) =>
      builder_src = LocalPath(location)

\* C10: the descent loop ends, on every layout, with a returned root or with
\* "Not a sdist".
C10_EndsInRootOrNotSdist ==
    u_pc = "done" => u_result.kind \in {"root", "NotSdist"}
====
